---- MODULE Spec2Model ----
(***************************************************************************)
(* Model of src/main.py: tic-tac-toe between a human (player 2) and a      *)
(* heuristic computer (player 1) on a square numpy board.                  *)
(*                                                                         *)
(* A board is a function [0..n-1 -> [0..n-1 -> value]], indexed as the     *)
(* numpy array is (board[r][c] is board[r, c]).  A position is <<r, c>>.   *)
(* Three specifications are given:                                         *)
(*   Spec     - the game played by play_tic_tac_toe_xc();                  *)
(*   FnSpec   - the detector functions applied to every well-formed board; *)
(*   LiveSpec - Spec with the fairness the game loop provides.             *)
(***************************************************************************)
EXTENDS Integers, FiniteSets, Sequences, TLC

VARIABLES board,      \* the game board (play_tic_tac_toe_xc: board)
          pc,         \* control position of the program
          win_set,    \* play_tic_tac_toe_xc: win_set
          pos,        \* play_tic_tac_toe_xc: pos, the computer's last move
          inp,        \* get_apply_input: (row_idx, col_idx) last read
          rejected,   \* get_apply_input printed "Invalid input given" for inp
          outcome,    \* what the final print announced
          moves,      \* number of moves applied to the board so far
          player_idx, \* FnSpec: the marker the function is called with
          ret         \* FnSpec: the value the called function returned

vars == <<board, pc, win_set, pos, inp, rejected, outcome, moves, player_idx, ret>>

----------------------------------------------------------------------------
(* Program constants *)

N == 3                 \* shape=(3, 3)
board_null == 0        \* board_null=0
Computer == 1          \* the computer's marker
Human == 2             \* the human's marker

None == -1             \* Python's None in a win_type tuple
IndexError == <<-1, -1>>   \* the position standing for a raised IndexError

Markers == {Computer, Human}
Values == {board_null} \cup Markers
Rng(n) == 0 .. (n - 1)
Positions == Rng(N) \X Rng(N)
Boards == [Rng(N) -> [Rng(N) -> Values]]

(* board.shape[0] *)
Shape(b) == Cardinality(DOMAIN b)

(* np.full(shape, board_null) *)
EmptyBoard == [r \in Rng(N) |-> [c \in Rng(N) |-> board_null]]

(* board[p] for a position tuple p *)
At(b, p) == b[p[1]][p[2]]

(* board[p] = v *)
Put(b, p, v) == [b EXCEPT ![p[1]][p[2]] = v]

(* board[r0:r0+n-1, c0:c0+n-1], the slices of one_move_from_win *)
Slice(b, r0, c0) ==
    [i \in Rng(Shape(b) - 1) |-> [j \in Rng(Shape(b) - 1) |-> b[i + r0][j + c0]]]

(* board_null in board *)
HasNull(b) == \E r \in DOMAIN b : \E c \in DOMAIN b[r] : b[r][c] = board_null

(* np.where(board == board_null) read at [0][0], [1][0]: the first empty
   cell in row-major order; indexing the empty result raises IndexError *)
FirstEmpty(b) ==
    IF ~HasNull(b) THEN IndexError
    ELSE LET r == CHOOSE r \in DOMAIN b :
                    /\ \E c \in DOMAIN b[r] : b[r][c] = board_null
                    /\ \A r2 \in DOMAIN b :
                          (\E c \in DOMAIN b[r2] : b[r2][c] = board_null) => r <= r2
             c == CHOOSE c \in DOMAIN b[r] :
                    /\ b[r][c] = board_null
                    /\ \A c2 \in DOMAIN b[r] : b[r][c2] = board_null => c <= c2
         IN <<r, c>>

----------------------------------------------------------------------------
(* pick_empty_pos without its test board[p] == board_null *)
pick_empty_pos_unchecked(b, null, ps) ==
    IF ps = <<>> THEN FirstEmpty(b) ELSE Head(ps)

(* pick_empty_pos: the first position of the list ps that is empty on the
   board, else the first empty position of the board *)
RECURSIVE pick_empty_pos(_, _, _)
pick_empty_pos(b, null, ps) ==
    IF ps = <<>> THEN FirstEmpty(b)
    ELSE IF At(b, Head(ps)) = null THEN Head(ps)
    ELSE pick_empty_pos(b, null, Tail(ps))

(* the body of the for loop of get_win_set_type, from index idx on; acc is
   the pair (win_set, win_type) so far *)
RECURSIVE scan_lines(_, _, _, _)
scan_lines(b, p, idx, acc) ==
    IF idx >= Shape(b) THEN acc
    ELSE LET row_set == {b[idx][j] : j \in Rng(Shape(b))}
             col_set == {b[i][idx] : i \in Rng(Shape(b))}
             a1 == IF Cardinality(row_set) = 1 /\ row_set = {p}
                   THEN <<acc[1] \cup {b[idx][0]}, <<"row", idx>>>>
                   ELSE acc
             a2 == IF Cardinality(col_set) = 1 /\ col_set = {p}
                   THEN <<a1[1] \cup {b[0][idx]}, <<"col", idx>>>>
                   ELSE a1
         IN scan_lines(b, p, idx + 1, a2)

(* get_win_set_type with the anti-diagonal taken without reversing the
   columns, so that it reads the main diagonal twice *)
get_win_set_type_unreversed(b, p) ==
    LET n == Shape(b)
        a0 == scan_lines(b, p, 0, <<{}, <<"", None>>>>)
        main_diag_set == {b[i][i] : i \in Rng(n)}
        other_diag_set == {b[i][i] : i \in Rng(n)}
        a1 == IF Cardinality(main_diag_set) = 1 /\ main_diag_set = {p}
              THEN <<a0[1] \cup {b[0][0]}, <<"main_diag", None>>>>
              ELSE a0
        a2 == IF Cardinality(other_diag_set) = 1 /\ other_diag_set = {p}
              THEN <<a1[1] \cup {b[0][0]}, <<"other_diag", None>>>>
              ELSE a1
    IN a2

(* get_win_set_type with the main diagonal tested for containing the marker
   instead of consisting of it *)
get_win_set_type_diag_member(b, p) ==
    LET n == Shape(b)
        a0 == scan_lines(b, p, 0, <<{}, <<"", None>>>>)
        main_diag_set == {b[i][i] : i \in Rng(n)}
        other_diag_set == {b[i][n - 1 - i] : i \in Rng(n)}
        a1 == IF p \in main_diag_set
              THEN <<a0[1] \cup {p}, <<"main_diag", None>>>>
              ELSE a0
        a2 == IF Cardinality(other_diag_set) = 1 /\ other_diag_set = {p}
              THEN <<a1[1] \cup {b[0][n - 1]}, <<"other_diag", None>>>>
              ELSE a1
    IN a2

(* get_win_set_type: the pair (win_set, win_type) *)
get_win_set_type(b, p) ==
    LET n == Shape(b)
        a0 == scan_lines(b, p, 0, <<{}, <<"", None>>>>)
        main_diag_set == {b[i][i] : i \in Rng(n)}
        other_diag_set == {b[i][n - 1 - i] : i \in Rng(n)}
        a1 == IF Cardinality(main_diag_set) = 1 /\ main_diag_set = {p}
              THEN <<a0[1] \cup {b[0][0]}, <<"main_diag", None>>>>
              ELSE a0
        a2 == IF Cardinality(other_diag_set) = 1 /\ other_diag_set = {p}
              THEN <<a1[1] \cup {b[0][n - 1]}, <<"other_diag", None>>>>
              ELSE a1
    IN a2

(* get_win_move: the list poss_win_moves of the win type, handed to
   pick_empty_pos *)
poss_win_moves(b, win_type) ==
    IF win_type[1] = "row"
      THEN [k \in 1 .. Shape(b) |-> <<win_type[2], k - 1>>]
    ELSE IF win_type[1] = "col"
      THEN [k \in 1 .. Shape(b) |-> <<k - 1, win_type[2]>>]
    ELSE IF win_type[1] = "main_diag"
      THEN [k \in 1 .. Shape(b) |-> <<k - 1, k - 1>>]
    ELSE IF win_type[1] = "other_diag"
      THEN << <<2, 0>>, <<1, 1>>, <<0, 2>> >>
    ELSE <<>>

get_win_move(b, null, win_type) ==
    pick_empty_pos(b, null, poss_win_moves(b, win_type))

(* the four sub-matrices of one_move_from_win, in processing order *)
sub_mats(b) ==
    << Slice(b, 1, 1),     \* sub_mat_1 = board[1:, 1:]
       Slice(b, 0, 0),     \* sub_mat_2 = board[0:-1, 0:-1]
       Slice(b, 1, 0),     \* sub_mat_3 = board[1:, :-1]
       Slice(b, 0, 1) >>   \* sub_mat_4 = board[:-1, 1:]

(* the win_info of the k-th sub-matrix *)
sub_win_info(b, p, k) == get_win_set_type(sub_mats(b)[k], p)

(* the win_pos held after the k-th sub-matrix: assigned anew at every one *)
win_pos_after(b, null, p, k) == get_win_move(b, null, sub_win_info(b, p, k)[2])

(* one_move_from_win: the pair (threatened, win_pos); a win_pos of
   IndexError stands for the exception get_win_move raises on a board
   without an empty cell *)
one_move_from_win(b, null, p) ==
    LET wins == UNION {sub_win_info(b, p, k)[1] : k \in 1 .. 4}
        win_pos == win_pos_after(b, null, p, 4)
    IN IF \E k \in 1 .. 4 : win_pos_after(b, null, p, k) = IndexError
       THEN <<FALSE, IndexError>>
       ELSE <<wins # {}, win_pos>>

(* find_decent_move *)
find_decent_move(b, null, p) ==
    LET win_info == one_move_from_win(b, null, p)
    IN IF win_info[2] = IndexError THEN IndexError
       ELSE IF win_info[1] THEN win_info[2]
       ELSE FirstEmpty(b)

(* the choice of pos with the two threat checks in the other order *)
computer_pos_own_first(b) ==
    LET own_win_info == one_move_from_win(b, board_null, Computer)
        opp_win_info == one_move_from_win(b, board_null, Human)
    IN IF own_win_info[2] = IndexError THEN IndexError
       ELSE IF own_win_info[1] THEN own_win_info[2]
       ELSE IF opp_win_info[1] THEN opp_win_info[2]
       ELSE FirstEmpty(b)

(* play_tic_tac_toe_xc, the choice of pos for the computer's move *)
computer_pos(b) ==
    LET opp_win_info == one_move_from_win(b, board_null, Human)
    IN IF opp_win_info[2] = IndexError THEN IndexError
       ELSE IF opp_win_info[1] THEN opp_win_info[2]
       ELSE find_decent_move(b, board_null, Computer)

(* the break tests without the test for a full board *)
loop_breaks_no_full(ws, b) == Computer \in ws \/ Human \in ws

(* the break tests without the test for a win *)
loop_breaks_no_win(ws, b) == ~HasNull(b)

(* play_tic_tac_toe_xc, the loop's two break tests after a move *)
loop_breaks(ws, b) ==
    \/ Computer \in ws \/ Human \in ws
    \/ ~HasNull(b)

(* play_tic_tac_toe_xc, the outcome printed after the loop *)
game_outcome(ws) ==
    LET w == ws \ {board_null}
    IN IF w # {} THEN <<"won", w>> ELSE <<"Tie", {}>>

(* numpy's index wrap: a negative index counts from the end *)
Wrap(i) == IF i < 0 THEN i + N ELSE i

(* the indices get_position can return that board[row_idx, col_idx] accepts *)
Inputs == (-N .. (N - 1)) \X (-N .. (N - 1))

NoRet == <<FALSE, IndexError>>
NoOutcome == <<"", {}>>

----------------------------------------------------------------------------
(* The game: play_tic_tac_toe_xc *)

Init ==
    /\ board = EmptyBoard
    /\ pc = "computer"
    /\ win_set = {}
    /\ pos = IndexError
    /\ inp = IndexError
    /\ rejected = FALSE
    /\ outcome = NoOutcome
    /\ moves = 0
    /\ player_idx = Computer
    /\ ret = NoRet

(* one pass of the loop up to the human's prompt *)
ComputerMove ==
    /\ pc = "computer"
    /\ \E p \in {computer_pos(board)} :
          IF p = IndexError
          THEN /\ pc' = "raised"
               /\ UNCHANGED <<board, win_set, pos, outcome, moves>>
          ELSE \E b2 \in {Put(board, p, Computer)} :
               \E ws \in {get_win_set_type(b2, Computer)[1]} :
                  /\ pos' = p
                  /\ board' = b2
                  /\ moves' = moves + 1
                  /\ win_set' = ws
                  /\ IF loop_breaks(ws, b2)
                     THEN pc' = "done" /\ outcome' = game_outcome(ws)
                     ELSE pc' = "human" /\ outcome' = outcome
    /\ rejected' = FALSE
    /\ UNCHANGED <<inp, player_idx, ret>>

(* get_apply_input: an input naming a taken position is refused *)
HumanReject ==
    /\ pc = "human"
    /\ \E i \in Inputs :
          /\ board[Wrap(i[1])][Wrap(i[2])] # board_null
          /\ inp' = i
          /\ rejected' = TRUE
    /\ UNCHANGED <<board, pc, win_set, pos, outcome, moves, player_idx, ret>>

(* get_apply_input without the re-query for a taken position *)
HumanAccept_unvalidated ==
    /\ pc = "human"
    /\ \E i \in Inputs :
          /\ inp' = i
          /\ rejected' = FALSE
          /\ \E b2 \in {Put(board, <<Wrap(i[1]), Wrap(i[2])>>, Human)} :
             \E ws \in {get_win_set_type(b2, Human)[1]} :
                /\ board' = b2
                /\ moves' = moves + 1
                /\ win_set' = ws
                /\ IF loop_breaks(ws, b2)
                   THEN pc' = "done" /\ outcome' = game_outcome(ws)
                   ELSE pc' = "computer" /\ outcome' = outcome
    /\ UNCHANGED <<pos, player_idx, ret>>

(* get_apply_input: an input naming an empty position is applied, and the
   loop runs on to its break tests *)
HumanAccept ==
    /\ pc = "human"
    /\ \E i \in Inputs :
          /\ board[Wrap(i[1])][Wrap(i[2])] = board_null
          /\ inp' = i
          /\ rejected' = FALSE
          /\ \E b2 \in {Put(board, <<Wrap(i[1]), Wrap(i[2])>>, Human)} :
             \E ws \in {get_win_set_type(b2, Human)[1]} :
                /\ board' = b2
                /\ moves' = moves + 1
                /\ win_set' = ws
                /\ IF loop_breaks(ws, b2)
                   THEN pc' = "done" /\ outcome' = game_outcome(ws)
                   ELSE pc' = "computer" /\ outcome' = outcome
    /\ UNCHANGED <<pos, player_idx, ret>>

Next == ComputerMove \/ HumanReject \/ HumanAccept

Spec == Init /\ [][Next]_vars

(* the loop never blocks at the computer's move, and the human, prompted
   again after every refusal, eventually names an empty position *)
LiveSpec == Spec /\ WF_vars(ComputerMove) /\ WF_vars(HumanAccept)

----------------------------------------------------------------------------
(* The functions, called on every well-formed board *)

FnInit ==
    /\ board \in Boards
    /\ player_idx \in Markers
    /\ pc = "call"
    /\ win_set = {}
    /\ pos = IndexError
    /\ inp = IndexError
    /\ rejected = FALSE
    /\ outcome = NoOutcome
    /\ moves = 0
    /\ ret = NoRet

(* win_info = get_win_set_type(board, player_idx) *)
CallWinDetector ==
    /\ pc = "call"
    /\ ret' = get_win_set_type(board, player_idx)
    /\ pc' = "win_detected"
    /\ UNCHANGED <<board, win_set, pos, inp, rejected, outcome, moves, player_idx>>

(* win_info = one_move_from_win(board, board_null, player_idx) *)
CallThreatDetector ==
    /\ pc = "call"
    /\ ret' = one_move_from_win(board, board_null, player_idx)
    /\ pc' = "threat_detected"
    /\ UNCHANGED <<board, win_set, pos, inp, rejected, outcome, moves, player_idx>>

(* the computer's choice of pos on the board *)
CallMoveSelector ==
    /\ pc = "call"
    /\ pos' = computer_pos(board)
    /\ pc' = "move_selected"
    /\ UNCHANGED <<board, win_set, inp, rejected, outcome, moves, player_idx, ret>>

FnNext == CallWinDetector \/ CallThreatDetector \/ CallMoveSelector

FnSpec == FnInit /\ [][FnNext]_vars

----------------------------------------------------------------------------
(* The rules of the game, stated on the full board independently of the
   detectors *)

LineDescs ==
    {<<"row", i>> : i \in Rng(N)} \cup {<<"col", i>> : i \in Rng(N)}
        \cup {<<"main_diag", None>>, <<"other_diag", None>>}

CellsOf(d) ==
    IF d[1] = "row" THEN {<<d[2], c>> : c \in Rng(N)}
    ELSE IF d[1] = "col" THEN {<<r, d[2]>> : r \in Rng(N)}
    ELSE IF d[1] = "main_diag" THEN {<<i, i>> : i \in Rng(N)}
    ELSE {<<i, N - 1 - i>> : i \in Rng(N)}

(* marker m fills every cell of line d *)
Completed(b, m, d) == \A q \in CellsOf(d) : At(b, q) = m

HasLine(b, m) == \E d \in LineDescs : Completed(b, m, d)

(* line d has exactly one empty cell, e, and m everywhere else *)
ThreatAt(b, m, d, e) ==
    /\ e \in CellsOf(d)
    /\ At(b, e) = board_null
    /\ \A q \in CellsOf(d) \ {e} : At(b, q) = m

HasThreat(b, m) == \E d \in LineDescs : \E e \in CellsOf(d) : ThreatAt(b, m, d, e)

(* the first empty cell in row-major order, by rank *)
RowMajorFirstEmpty(b) ==
    CHOOSE q \in Positions :
        /\ At(b, q) = board_null
        /\ \A q2 \in Positions :
              At(b, q2) = board_null => N * q[1] + q[2] <= N * q2[1] + q2[2]

Filled(b) == Cardinality({q \in Positions : At(b, q) # board_null})

----------------------------------------------------------------------------
(* C1: whenever some line of the board has exactly one empty cell and marker
   m in every other cell, one_move_from_win called with m returns True and a
   move that, once m is written there, makes get_win_set_type report m. *)
C1_ThreatFoundAndCompleted ==
    (pc = "threat_detected" /\ HasThreat(board, player_idx)) =>
        /\ ret[1] = TRUE
        /\ ret[2] \in Positions
        /\ player_idx \in get_win_set_type(Put(board, ret[2], player_idx), player_idx)[1]

(* C2: on a board with an empty cell the computer's chosen pos lies inside
   the board and names a cell holding board_null. *)
C2_MoveIsEmptyCell ==
    (pc = "move_selected" /\ HasNull(board)) =>
        /\ pos \in Positions
        /\ At(board, pos) = board_null

C2_Witness ==
    /\ pc = "move_selected"
    /\ HasNull(board)
    /\ one_move_from_win(board, board_null, Human)[1]
    /\ pos # RowMajorFirstEmpty(board)

(* C3: the computer's pos is the move of the opponent's threat report if
   that reports a threat, else the move of its own threat report if that
   reports one, else the first empty cell in row-major order. *)
C3_Priority ==
    (pc = "move_selected" /\ HasNull(board)) =>
        LET opp == one_move_from_win(board, board_null, Human)
            own == one_move_from_win(board, board_null, Computer)
        IN /\ opp[1] => pos = opp[2]
           /\ (~opp[1] /\ own[1]) => pos = own[2]
           /\ (~opp[1] /\ ~own[1]) => pos = RowMajorFirstEmpty(board)

C3_Witness ==
    /\ pc = "move_selected"
    /\ HasNull(board)
    /\ LET opp == one_move_from_win(board, board_null, Human)
           own == one_move_from_win(board, board_null, Computer)
       IN opp[1] /\ own[1] /\ opp[2] # own[2] /\ pos = opp[2]

(* C4: get_win_set_type returns {m} when m fills a line and the empty set
   when it fills none, never more than {m}; when m fills exactly one line
   the returned descriptor names that line. *)
C4_WinDetector ==
    pc = "win_detected" =>
        /\ HasLine(board, player_idx) => ret[1] = {player_idx}
        /\ ~HasLine(board, player_idx) => ret[1] = {}
        /\ ret[1] \subseteq {player_idx}
        /\ \A d \in LineDescs :
              {e \in LineDescs : Completed(board, player_idx, e)} = {d} => ret[2] = d

C4_Witness ==
    /\ pc = "win_detected"
    /\ {e \in LineDescs : Completed(board, player_idx, e)} = {<<"other_diag", None>>}
    /\ ret = <<{player_idx}, <<"other_diag", None>>>>

(* C5: every game reaches its end, the computer is never to move on a
   board without an empty cell, and no more than N*N moves are applied. *)
C5_Terminates ==
    /\ <>(pc = "done")
    /\ [](pc = "computer" => HasNull(board))
    /\ [](moves <= N * N /\ pc \in {"computer", "human", "done"})

C5_Witness ==
    /\ pc = "done"
    /\ moves = N * N
    /\ ~HasNull(board)

(* C6: at the end a player is announced as winner exactly when that player
   has a completed line, at most one player is announced, Tie is announced
   exactly when the board is full and nobody has a line; never do both
   players have a completed line. *)
C6_OutcomeMatchesBoard ==
    /\ ~(HasLine(board, Computer) /\ HasLine(board, Human))
    /\ pc # "done" => outcome = NoOutcome
    /\ pc = "done" =>
          /\ outcome[1] \in {"won", "Tie"}
          /\ \A p \in Markers :
                (outcome[1] = "won" /\ p \in outcome[2]) <=> HasLine(board, p)
          /\ Cardinality(outcome[2]) <= 1
          /\ outcome[1] = "Tie" <=>
                (/\ ~HasNull(board)
                 /\ ~HasLine(board, Computer)
                 /\ ~HasLine(board, Human))

C6_Witness ==
    /\ pc = "done"
    /\ outcome = <<"won", {Human}>>
    /\ HasLine(board, Human)

C6_WitnessTie ==
    /\ pc = "done"
    /\ outcome[1] = "Tie"

(* C7: the board starts empty, holds only board_null or a marker, every
   applied move turns exactly one empty cell into the mover's marker, no
   marked cell ever changes, and a refused input leaves the board as it is. *)
C7_BoardLifecycle ==
    /\ board = EmptyBoard
    /\ [](board \in Boards)
    /\ [][ /\ \A q \in Positions : At(board, q) # board_null => At(board', q) = At(board, q)
           /\ moves' # moves =>
                 /\ moves' = moves + 1
                 /\ \E q \in Positions :
                       /\ At(board, q) = board_null
                       /\ At(board', q) = (IF pc = "computer" THEN Computer ELSE Human)
                       /\ \A q2 \in Positions \ {q} : At(board', q2) = At(board, q2)
           /\ moves' = moves => board' = board
           /\ rejected' => board' = board
           /\ moves' = Filled(board') ]_vars

C7_Witness ==
    /\ pc = "human"
    /\ rejected
    /\ moves = 3
    /\ At(board, <<Wrap(inp[1]), Wrap(inp[2])>>) = Human

(* C8 as stated: on [[1,2,1],[2,1,2],[2,1,2]] get_win_set_type called with
   marker 1 returns {1} and a main-diagonal win. *)
Scenario4 ==
    [r \in Rng(N) |-> [c \in Rng(N) |->
        << <<1, 2, 1>>, <<2, 1, 2>>, <<2, 1, 2>> >>[r + 1][c + 1]]]

C8_Original ==
    (pc = "win_detected" /\ board = Scenario4 /\ player_idx = 1) =>
        ret = <<{1}, <<"main_diag", None>>>>

(* C8 amended: on [[1,2,1],[2,1,2],[2,1,2]] get_win_set_type called with
   marker 1 returns the empty winning set and the win type ('', None): the
   main diagonal reads 1, 1, 2 and no line is complete. *)
C8_NoWinOnScenario4 ==
    (pc = "win_detected" /\ board = Scenario4 /\ player_idx = 1) =>
        ret = <<{}, <<"", None>>>>

C8_Witness ==
    /\ pc = "win_detected"
    /\ board = Scenario4
    /\ player_idx = 1
    /\ At(board, <<2, 2>>) = 2

(* C9: whenever one_move_from_win reports threatened=True for m, some line
   of the full board has exactly one empty cell and m in every other cell. *)
C9_ThreatSound ==
    (pc = "threat_detected" /\ ret[1] = TRUE) => HasThreat(board, player_idx)

(* C10: when one_move_from_win reports threatened=True, its move is the
   first empty cell among the candidate cells of the win type of the last
   sub-matrix that reported a win, the row-major first empty cell serving
   only when no candidate is empty. *)
C10_MoveFromLastWinningSubBoard ==
    (pc = "threat_detected" /\ ret[1] = TRUE) =>
        LET K == {k \in 1 .. 4 : sub_win_info(board, player_idx, k)[2][1] # ""}
            last == CHOOSE k \in K : \A k2 \in K : k2 <= k
            cand == poss_win_moves(board, sub_win_info(board, player_idx, last)[2])
            E == {i \in DOMAIN cand : At(board, cand[i]) = board_null}
        IN ret[2] = (IF E = {} THEN RowMajorFirstEmpty(board)
                     ELSE cand[CHOOSE i \in E : \A j \in E : i <= j])

====
